---- MODULE Spec2Model ----
(***************************************************************************)
(* Model of the openapi-context middleware stack:                          *)
(*   header.rs        XSpanId codec, get_or_generate, X_SPAN_ID_HEADER     *)
(*   add_context.rs   AddContextMakeService / AddContextService            *)
(*   auth.rs          AllowAllAuthenticatorMakeService / AllowAllAuthenticator *)
(*   drop_context.rs  DropContextMakeService / DropContextService          *)
(*                                                                         *)
(* Strings are sequences of character codes, header values are sequences   *)
(* of bytes, so that the conversions between them are computed.            *)
(* A connection is one stack of units built by the make-services; its      *)
(* last unit wraps a terminal unit the stack's user supplies.              *)
(***************************************************************************)
EXTENDS Integers, Sequences, FiniteSets, TLC

VARIABLES
    cell,        \* the lazy_static X_SPAN_ID_HEADER: uninit, ready(name) or poisoned
    uuids,       \* number of values drawn from Uuid::new_v4 so far
    conn,        \* the units built for the current connection (or none)
    innerReady,  \* whether the terminal unit's poll_ready would report ready
    poll,        \* outcome of the last poll_ready on the outermost unit
    lastCall,    \* the observed Service::call on the stack, until put aside
    lastCodec    \* the observed XSpanId encode/decode, until put aside

vars == <<cell, uuids, conn, innerReady, poll, lastCall, lastCodec>>

----------------------------------------------------------------------------
(* Bounds of the model *)

MaxValLen == 2      \* bytes in a header value of an incoming request
MaxIdLen == 2       \* characters in an identifier handed to encode
MaxValues == 2      \* header values handed to decode
MaxCtxDepth == 2    \* layers of a context handed to a stage directly
MaxUuids == 3       \* values drawn from the generator

----------------------------------------------------------------------------
(* Characters, strings, header values *)

\* Bytes of header values arriving on the wire: 'a' and an obs-text byte.
WireBytes == {97, 200}
\* Characters of identifiers: 'a', ' ', '\n', U+00E9.
IdChars == {97, 32, 10, 233}

RECURSIVE SeqsUpTo(_, _)
SeqsUpTo(S, n) ==
    IF n = 0 THEN {<<>>}
    ELSE LET shorter == SeqsUpTo(S, n - 1)
         IN shorter \cup {Append(s, x) : s \in shorter, x \in S}

\* str::as_bytes: the UTF-8 encoding of a string of characters below U+0800.
RECURSIVE Utf8(_)
Utf8(s) ==
    IF s = <<>> THEN <<>>
    ELSE LET c == Head(s)
         IN (IF c < 128 THEN <<c>> ELSE <<192 + (c \div 64), 128 + (c % 64)>>)
            \o Utf8(Tail(s))

\* http::header::value::is_visible_ascii
is_visible_ascii(b) == (b >= 32 /\ b < 127) \/ b = 9

\* HeaderValue::from_str: Err unless every byte is visible ASCII (or tab).
HeaderValue_from_str(s) ==
    LET bytes == Utf8(s)
    IN IF \A i \in DOMAIN bytes : is_visible_ascii(bytes[i])
       THEN [ok |-> TRUE, value |-> bytes]
       ELSE [ok |-> FALSE, value |-> <<>>]

\* HeaderValue::to_str: Err unless every byte is visible ASCII (or tab);
\* the string has one character per byte.
HeaderValue_to_str(v) ==
    IF \A i \in DOMAIN v : is_visible_ascii(v[i])
    THEN [ok |-> TRUE, str |-> v]
    ELSE [ok |-> FALSE, str |-> <<>>]

----------------------------------------------------------------------------
(* header.rs: the header name *)

\* "X-Span-ID"
X_SPAN_ID == <<88, 45, 83, 112, 97, 110, 45, 73, 68>>

\* The name under which a HeaderMap stores an X-Span-ID header ("x-span-id"):
\* names are lower-cased when a request is parsed.
XSpanIdWireName == <<120, 45, 115, 112, 97, 110, 45, 105, 100>>
\* Some other header ("etag").
OtherWireName == <<101, 116, 97, 103>>

\* http's HEADER_CHARS_H2: lower-case letters, digits and token symbols;
\* upper-case letters are not in the table.
IsH2HeaderChar(c) ==
    \/ c \in 97..122
    \/ c \in 48..57
    \/ c \in {33, 35, 36, 37, 38, 39, 42, 43, 45, 46, 94, 95, 96, 124, 126}

\* HeaderName::from_static: panics unless the string is a valid lower-case
\* header name.
HeaderName_from_static(src) ==
    IF src # <<>> /\ \A i \in DOMAIN src : IsH2HeaderChar(src[i])
    THEN [panic |-> FALSE, name |-> src]
    ELSE [panic |-> TRUE, name |-> <<>>]

CellUninit == [state |-> "uninit", name |-> <<>>]
CellPoisoned == [state |-> "poisoned", name |-> <<>>]

\* Dereferencing the lazy_static X_SPAN_ID_HEADER: the first use runs the
\* initialiser; a panic in it poisons the cell, and every later use panics.
X_SPAN_ID_HEADER(c) ==
    IF c.state = "ready" THEN [panic |-> FALSE, name |-> c.name, cell |-> c]
    ELSE IF c.state = "poisoned" THEN [panic |-> TRUE, name |-> <<>>, cell |-> c]
    ELSE LET r == HeaderName_from_static(X_SPAN_ID)
         IN IF r.panic
            THEN [panic |-> TRUE, name |-> <<>>, cell |-> CellPoisoned]
            ELSE [panic |-> FALSE, name |-> r.name,
                  cell |-> [state |-> "ready", name |-> r.name]]

----------------------------------------------------------------------------
(* header.rs: the XSpanId codec *)

InvalidHeader == [ok |-> FALSE, id |-> <<>>]

\* str::trim_start on spaces and tabs.
RECURSIVE TrimStart(_)
TrimStart(s) ==
    IF s # <<>> /\ Head(s) \in {32, 9} THEN TrimStart(Tail(s)) ELSE s

\* decode that trims the text it read.
XSpanId_decode_trimmed(values) ==
    IF values = <<>> THEN InvalidHeader
    ELSE LET s == HeaderValue_to_str(Head(values))
         IN IF s.ok THEN [ok |-> TRUE, id |-> TrimStart(s.str)] ELSE InvalidHeader

\* <XSpanId as Header>::decode: the first value, as text.
XSpanId_decode(values) ==
    IF values = <<>> THEN InvalidHeader
    ELSE LET s == HeaderValue_to_str(Head(values))
         IN IF s.ok THEN [ok |-> TRUE, id |-> s.str] ELSE InvalidHeader

\* <XSpanId as Header>::encode: from_str(..).unwrap(), then extend by one value.
XSpanId_encode(id) ==
    LET v == HeaderValue_from_str(id)
    IN IF v.ok THEN [panic |-> FALSE, values |-> <<v.value>>]
       ELSE [panic |-> TRUE, values |-> <<>>]

\* The string form of the k-th value drawn from Uuid::new_v4 ('u' and a digit
\* stand for the 36 characters): a generator that never repeats.
UuidString(k) == <<117, 48 + k>>

\* <XSpanId as Default>::default
XSpanId_default(n) == [id |-> UuidString(n + 1), uuids |-> n + 1]

\* HeaderMap::get_all(name): the values stored under name, in order.
get_all(headers, name) ==
    LET idx == {i \in DOMAIN headers : headers[i].name = name}
        F[i \in 0..Len(headers)] ==
            IF i = 0 THEN <<>>
            ELSE IF i \in idx THEN Append(F[i - 1], headers[i].value)
            ELSE F[i - 1]
    IN F[Len(headers)]

\* HeaderMapExt::typed_get::<XSpanId>: None when the header is absent or
\* when decode fails.
typed_get(headers, name) ==
    LET values == get_all(headers, name)
    IN IF values = <<>> THEN [some |-> FALSE, id |-> <<>>]
       ELSE LET d == XSpanId_decode(values)
            IN [some |-> d.ok, id |-> d.id]

\* XSpanId::get_or_generate
XSpanId_get_or_generate(req, c, n) ==
    LET h == X_SPAN_ID_HEADER(c)
    IN IF h.panic
       THEN [panic |-> TRUE, id |-> <<>>, cell |-> h.cell, uuids |-> n]
       ELSE LET x_span_id == typed_get(req.headers, h.name)
            IN IF x_span_id.some
               THEN [panic |-> FALSE, id |-> x_span_id.id,
                     cell |-> h.cell, uuids |-> n]
               ELSE LET d == XSpanId_default(n)
                    IN [panic |-> FALSE, id |-> d.id,
                        cell |-> h.cell, uuids |-> d.uuids]

----------------------------------------------------------------------------
(* The context stack and the contextual payload *)

\* C::default(): the empty context.
ContextDefault == <<>>

\* Push::push: the value becomes the newest layer, the rest is kept below it.
Push(context, value) == <<value>> \o context

XSpanIdLayer(id) == [type |-> "XSpanId", id |-> id]

\* auth.rs: Scopes, Authorization
ScopesAll == [all |-> TRUE, set |-> {}]
ScopesSome(S) == [all |-> FALSE, set |-> S]
NoneString == [some |-> FALSE, v |-> ""]
Authorization(subject, scopes, issuer) ==
    [subject |-> subject, scopes |-> scopes, issuer |-> issuer]
SomeAuth(a) == [type |-> "Option<Authorization>", some |-> TRUE, auth |-> a]

ContextualPayload(inner, context) == [inner |-> inner, context |-> context]

----------------------------------------------------------------------------
(* The stacks of units a connection is served by *)

Pipelines == {"add", "auth", "drop", "full"}

\* The units of a stack, outermost first; the terminal unit follows them.
Stages(p) ==
    CASE p = "add" -> <<"add">>
      [] p = "auth" -> <<"auth">>
      [] p = "drop" -> <<"drop">>
      [] p = "full" -> <<"add", "auth", "drop">>

NoConn == [pipeline |-> "none", configured |-> "", subject |-> ""]

\* AllowAllAuthenticatorMakeService::new
AllowAllAuthenticatorMakeService_new(subject) == [subject |-> subject]

\* AllowAllAuthenticator::new
AllowAllAuthenticator_new(subject) == [subject |-> subject]

\* AllowAllAuthenticatorMakeService::call: the unit gets a clone of the subject.
AllowAllAuthenticatorMakeService_call(self) ==
    AllowAllAuthenticator_new(self.subject)

\* What the terminal unit's future resolves to.
Outcomes ==
    {[tag |-> "ok", val |-> "resp"], [tag |-> "err", val |-> "boom"],
     [tag |-> "cancelled", val |-> ""]}
Panicked == [tag |-> "panic", val |-> ""]

\* The echo unit: responds with the body of the request it is given.
Echo_call(req) == [tag |-> "ok", val |-> req.body]

RECURSIVE Service_call(_, _, _, _)

\* AddContextService::call
AddContextService_call(p, i, req, w) ==
    LET x_span_id == XSpanId_get_or_generate(req, w.cell, w.uuids)
    IN IF x_span_id.panic
       THEN [trace |-> <<>>, result |-> Panicked,
             cell |-> x_span_id.cell, uuids |-> x_span_id.uuids]
       ELSE LET context == Push(ContextDefault, XSpanIdLayer(x_span_id.id))
            IN Service_call(p, i + 1, ContextualPayload(req, context),
                            [w EXCEPT !.cell = x_span_id.cell,
                                      !.uuids = x_span_id.uuids])

\* call that keeps an authorization the context already holds instead of
\* pushing the configured one.
AllowAllAuthenticator_call_keeping(p, i, req, w) ==
    LET auth == Authorization(w.subject, ScopesAll, NoneString)
        has == \E k \in DOMAIN req.context :
                   req.context[k].type = "Option<Authorization>"
        context == IF has THEN req.context
                   ELSE Push(req.context, SomeAuth(auth))
    IN Service_call(p, i + 1, ContextualPayload(req.inner, context), w)

\* AllowAllAuthenticator::call
AllowAllAuthenticator_call(p, i, req, w) ==
    LET auth == Authorization(w.subject, ScopesAll, NoneString)
        context == Push(req.context, SomeAuth(auth))
    IN Service_call(p, i + 1, ContextualPayload(req.inner, context), w)

\* call that hands the identifier of the context on as a header of the request.
DropContextService_call_leaking(p, i, req, w) ==
    LET ids == {k \in DOMAIN req.context : req.context[k].type = "XSpanId"}
        leaked == IF ids = {} THEN req.inner
                  ELSE [req.inner EXCEPT !.headers =
                           Append(@, [name |-> XSpanIdWireName,
                                      value |-> req.context[CHOOSE k \in ids : TRUE].id])]
    IN Service_call(p, i + 1, leaked, w)

\* DropContextService::call
DropContextService_call(p, i, req, w) ==
    Service_call(p, i + 1, req.inner, w)

\* Service::call of the i-th unit of stack p on arg. The trace lists, in
\* order, each unit that was called and what it was called with.
Service_call(p, i, arg, w) ==
    LET here == <<[pos |-> i, arg |-> arg]>>
    IN IF i > Len(Stages(p))
       THEN [trace |-> here,
             result |-> IF p = "full" THEN Echo_call(arg) ELSE w.outcome,
             cell |-> w.cell, uuids |-> w.uuids]
       ELSE LET r == CASE Stages(p)[i] = "add" -> AddContextService_call(p, i, arg, w)
                       [] Stages(p)[i] = "auth" -> AllowAllAuthenticator_call(p, i, arg, w)
                       [] Stages(p)[i] = "drop" -> DropContextService_call(p, i, arg, w)
            IN [r EXCEPT !.trace = here \o @]

\* AddContextService::poll_ready: Ok(()).into(), the inner unit is not polled.
AddContextService_poll_ready(i) == [ready |-> TRUE, polled |-> {i}]
\* AllowAllAuthenticator::poll_ready: Ok(()).into(), the inner unit is not polled.
AllowAllAuthenticator_poll_ready(i) == [ready |-> TRUE, polled |-> {i}]
\* DropContextService::poll_ready: Ok(()).into(), the inner unit is not polled.
DropContextService_poll_ready(i) == [ready |-> TRUE, polled |-> {i}]

\* Service::poll_ready of the i-th unit of stack p; the terminal unit
\* answers with its own readiness.
Service_poll_ready(p, i, terminalReady) ==
    IF i > Len(Stages(p)) THEN [ready |-> terminalReady, polled |-> {i}]
    ELSE CASE Stages(p)[i] = "add" -> AddContextService_poll_ready(i)
           [] Stages(p)[i] = "auth" -> AllowAllAuthenticator_poll_ready(i)
           [] Stages(p)[i] = "drop" -> DropContextService_poll_ready(i)

----------------------------------------------------------------------------
(* Inputs *)

Subjects == {"alice", "svc"}
Bodies == {"ping", "pong"}

HeaderValues == SeqsUpTo(WireBytes, MaxValLen)

\* Header maps with no header, or one header under one of two names.
HeaderMaps ==
    {<<>>} \cup {<<[name |-> n, value |-> v]>> :
                    n \in {XSpanIdWireName, OtherWireName}, v \in HeaderValues}

Requests == {[headers |-> h, body |-> b] : h \in HeaderMaps, b \in Bodies}

\* Layers a context handed to a stage directly may already hold.
Layers ==
    {XSpanIdLayer(<<97>>),
     SomeAuth(Authorization("bob", ScopesSome({"read"}), [some |-> TRUE, v |-> "idp"]))}

Contexts == SeqsUpTo(Layers, MaxCtxDepth)

Payloads == {ContextualPayload(r, c) : r \in Requests, c \in Contexts}

\* What the outermost unit of stack p accepts: a raw request or a payload.
Inputs(p) ==
    IF p \notin Pipelines THEN {}
    ELSE IF Stages(p)[1] = "add" THEN Requests ELSE Payloads

Identifiers == SeqsUpTo(IdChars, MaxIdLen)

ValueLists == SeqsUpTo(HeaderValues, MaxValues)

----------------------------------------------------------------------------
(* The state machine *)

NoPoll == [result |-> "none", polled |-> {}, innerReady |-> FALSE]

NoCall ==
    [pipeline |-> "none", configured |-> "", input |-> <<>>, trace |-> <<>>,
     outcome |-> Panicked, result |-> Panicked, polled |-> {},
     innerReady |-> FALSE, uuidsBefore |-> 0, uuidsAfter |-> 0]

NoCodec ==
    [op |-> "none", id |-> <<>>, panic |-> FALSE, values |-> <<>>,
     decoded |-> InvalidHeader]

\* An observation is pending until the observer puts it aside; the program
\* takes its next step after that.
Observed == lastCall # NoCall \/ lastCodec # NoCodec

Init ==
    /\ cell = CellUninit
    /\ uuids = 0
    /\ conn = NoConn
    /\ innerReady \in BOOLEAN
    /\ poll = NoPoll
    /\ lastCall = NoCall
    /\ lastCodec = NoCodec

\* A connection is accepted: the make-services build the stack's units.
\* The authenticator's factory is configured with subject s ("svc" in the
\* full stack).
MakeService(p, s) ==
    /\ ~Observed
    /\ conn = NoConn
    /\ IF p = "full" THEN s = "svc"
       ELSE IF p = "auth" THEN s \in Subjects
       ELSE s = ""
    /\ conn' = [pipeline |-> p, configured |-> s,
                subject |-> IF s = "" THEN ""
                            ELSE AllowAllAuthenticatorMakeService_call(
                                     AllowAllAuthenticatorMakeService_new(s)).subject]
    /\ poll' = NoPoll
    /\ UNCHANGED <<cell, uuids, innerReady, lastCall, lastCodec>>

\* The connection ends and its units are dropped.
Close ==
    /\ ~Observed
    /\ conn # NoConn
    /\ conn' = NoConn
    /\ poll' = NoPoll
    /\ UNCHANGED <<cell, uuids, innerReady, lastCall, lastCodec>>

\* The terminal unit becomes ready or stops being ready.
InnerReadiness ==
    /\ ~Observed
    /\ innerReady' = ~innerReady
    /\ UNCHANGED <<cell, uuids, conn, poll, lastCall, lastCodec>>

\* The stack's user polls the outermost unit.
PollReady ==
    /\ ~Observed
    /\ conn # NoConn
    /\ LET r == Service_poll_ready(conn.pipeline, 1, innerReady)
       IN poll' = [result |-> IF r.ready THEN "ready" ELSE "pending",
                   polled |-> r.polled, innerReady |-> innerReady]
    /\ UNCHANGED <<cell, uuids, conn, innerReady, lastCall, lastCodec>>

\* The stack's user, having been told the outermost unit is ready, calls it.
Call ==
    /\ ~Observed
    /\ conn # NoConn
    /\ poll.result = "ready"
    /\ uuids < MaxUuids
    /\ \E input \in Inputs(conn.pipeline), outcome \in Outcomes :
        LET w == [cell |-> cell, uuids |-> uuids, subject |-> conn.subject,
                  outcome |-> outcome]
            r == Service_call(conn.pipeline, 1, input, w)
        IN /\ cell' = r.cell
           /\ uuids' = r.uuids
           /\ lastCall' = [pipeline |-> conn.pipeline,
                           configured |-> conn.configured,
                           input |-> input, trace |-> r.trace,
                           outcome |-> outcome, result |-> r.result,
                           polled |-> poll.polled, innerReady |-> innerReady,
                           uuidsBefore |-> uuids, uuidsAfter |-> r.uuids]
    /\ poll' = NoPoll
    /\ UNCHANGED <<conn, innerReady, lastCodec>>

\* XSpanId(id).encode(&mut values)
Encode ==
    /\ ~Observed
    /\ \E id \in Identifiers :
        LET e == XSpanId_encode(id)
        IN lastCodec' = [op |-> "encode", id |-> id, panic |-> e.panic,
                         values |-> e.values, decoded |-> InvalidHeader]
    /\ UNCHANGED <<cell, uuids, conn, innerReady, poll, lastCall>>

\* XSpanId::decode on the values the last encode produced.
DecodeEncoded ==
    /\ lastCodec.op = "encode"
    /\ ~lastCodec.panic
    /\ lastCodec' = [lastCodec EXCEPT !.op = "roundtrip",
                                      !.decoded = XSpanId_decode(lastCodec.values)]
    /\ UNCHANGED <<cell, uuids, conn, innerReady, poll, lastCall>>

\* XSpanId::decode on values of a request.
Decode ==
    /\ ~Observed
    /\ \E values \in ValueLists :
        lastCodec' = [op |-> "decode", id |-> <<>>, panic |-> FALSE,
                      values |-> values, decoded |-> XSpanId_decode(values)]
    /\ UNCHANGED <<cell, uuids, conn, innerReady, poll, lastCall>>

\* The observer puts its last observation aside; the program is untouched.
Forget ==
    /\ Observed
    /\ lastCall' = NoCall
    /\ lastCodec' = NoCodec
    /\ UNCHANGED <<cell, uuids, conn, innerReady, poll>>

Next ==
    \/ \E p \in Pipelines, s \in Subjects \cup {""} : MakeService(p, s)
    \/ Close
    \/ InnerReadiness
    \/ PollReady
    \/ Call
    \/ Encode
    \/ DecodeEncoded
    \/ Decode
    \/ Forget

Spec == Init /\ [][Next]_vars

----------------------------------------------------------------------------
(* Reading an observed call *)

\* The arguments with which the unit at position k was called.
ReceivedAt(c, k) == {c.trace[j].arg : j \in {j \in DOMAIN c.trace : c.trace[j].pos = k}}

\* How often the unit at position k was called.
CallsAt(c, k) == Cardinality({j \in DOMAIN c.trace : c.trace[j].pos = k})

\* The identifiers a context carries.
SpanIdsOf(context) ==
    {context[k].id : k \in {k \in DOMAIN context : context[k].type = "XSpanId"}}

\* The X-Span-ID values a request carries.
XSpanValues(req) == get_all(req.headers, XSpanIdWireName)

\* Text: every byte of the value is a visible ASCII character or a tab.
IsText(v) == \A i \in DOMAIN v : v[i] \in (32..126) \cup {9}

StartsWithAdd(c) == c.pipeline \in {"add", "full"}

\* The identifiers the generator had handed out before the observed call.
IssuedBefore(c) == {UuidString(k) : k \in 1..c.uuidsBefore}

\* Positions of the stack's units of the given kind.
PositionsOf(c, kind) ==
    IF c.pipeline \notin Pipelines THEN {}
    ELSE {i \in DOMAIN Stages(c.pipeline) : Stages(c.pipeline)[i] = kind}

IsSuffix(s, t) ==
    /\ Len(s) <= Len(t)
    /\ SubSeq(t, Len(t) - Len(s) + 1, Len(t)) = s

----------------------------------------------------------------------------
(* Claims *)

\* C1: a request carrying a text X-Span-ID value v makes the
\* context-attaching stage call its inner unit with the original request and
\* a context carrying the identifier v, unchanged.
C1_HeaderValueReused ==
    (/\ StartsWithAdd(lastCall)
     /\ XSpanValues(lastCall.input) # <<>>
     /\ IsText(Head(XSpanValues(lastCall.input))))
    => \E a \in ReceivedAt(lastCall, 2) :
           /\ a.inner = lastCall.input
           /\ SpanIdsOf(a.context) = {Head(XSpanValues(lastCall.input))}

\* C2: a request without the X-Span-ID header makes the context-attaching
\* stage call its inner unit with a non-empty identifier that the generator
\* had not handed out to any earlier request.
C2_FreshIdGenerated ==
    (StartsWithAdd(lastCall) /\ XSpanValues(lastCall.input) = <<>>)
    => \E a \in ReceivedAt(lastCall, 2) :
           \E id \in SpanIdsOf(a.context) :
               /\ id # <<>>
               /\ id \notin IssuedBefore(lastCall)
               /\ SpanIdsOf(a.context) = {id}

\* C3: the authorization-attaching stage calls its inner unit with the same
\* body and with Some(Authorization{configured subject, All, None}) pushed as
\* the newest layer over the unchanged context it was given.
C3_AuthorizationPushed ==
    \A i \in PositionsOf(lastCall, "auth") :
        \A req \in ReceivedAt(lastCall, i) :
            \E a \in ReceivedAt(lastCall, i + 1) :
                /\ a.inner = req.inner
                /\ Len(a.context) = Len(req.context) + 1
                /\ Head(a.context) =
                       [type |-> "Option<Authorization>", some |-> TRUE,
                        auth |-> [subject |-> lastCall.configured,
                                  scopes |-> [all |-> TRUE, set |-> {}],
                                  issuer |-> [some |-> FALSE, v |-> ""]]]
                /\ Tail(a.context) = req.context

\* C3 witness: a stage configured with "alice" was called with a payload whose
\* context already held two layers, and called its inner unit.
C3_Witness ==
    /\ lastCall.pipeline = "auth"
    /\ lastCall.configured = "alice"
    /\ Len(lastCall.input.context) = 2
    /\ CallsAt(lastCall, 2) = 1

\* C4: the context-dropping stage calls its inner unit with exactly the body
\* of the payload: a bare request, equal to the one the payload wrapped.
C4_ContextDropped ==
    \A i \in PositionsOf(lastCall, "drop") :
        \A req \in ReceivedAt(lastCall, i) :
            /\ ReceivedAt(lastCall, i + 1) = {req.inner}
            /\ \A a \in ReceivedAt(lastCall, i + 1) :
                   DOMAIN a = {"headers", "body"}

\* C4 witness: the stage was called with a payload whose context held an
\* identifier and an authorization, and called its inner unit.
C4_Witness ==
    /\ lastCall.pipeline = "drop"
    /\ Len(lastCall.input.context) = 2
    /\ SpanIdsOf(lastCall.input.context) # {}
    /\ CallsAt(lastCall, 2) = 1

\* C5: the full stack, called with a request without X-Span-ID, responds as
\* the echo unit does to that request, and the payload entering the drop
\* stage carries a non-empty identifier and Authorization{"svc", All}.
C5_EndToEnd ==
    (lastCall.pipeline = "full" /\ XSpanValues(lastCall.input) = <<>>)
    => /\ lastCall.result = Echo_call(lastCall.input)
       /\ \E a \in ReceivedAt(lastCall, 3) :
              /\ \E id \in SpanIdsOf(a.context) : id # <<>>
              /\ \E k \in DOMAIN a.context :
                     /\ a.context[k].type = "Option<Authorization>"
                     /\ a.context[k].some
                     /\ a.context[k].auth.subject = "svc"
                     /\ a.context[k].auth.scopes = ScopesAll

C7_ReadinessDelegated ==
    /\ poll.result # "none"
           => (poll.result = "ready"
                   <=> Service_poll_ready(conn.pipeline, 2, poll.innerReady).ready)
    /\ \A j \in DOMAIN lastCall.trace : lastCall.trace[j].pos \in lastCall.polled

\* C8: on every call, each stage calls its inner unit exactly once and the
\* caller observes the outcome of the innermost unit, unchanged.
C8_InnerOutcomePassedThrough ==
    lastCall # NoCall
    => /\ \A i \in DOMAIN Stages(lastCall.pipeline) : CallsAt(lastCall, i + 1) = 1
       /\ lastCall.result =
              IF lastCall.pipeline = "full"
              THEN [tag |-> "ok", val |-> lastCall.input.body]
              ELSE lastCall.outcome

\* C9: decode reports an invalid header when there is no value or the value
\* is not text, and a request whose X-Span-ID value is not text still reaches
\* the inner unit of the context-attaching stage, with a generated identifier.
C9_DecodeErrorFallsBack ==
    /\ (/\ lastCodec.op = "decode"
        /\ (lastCodec.values = <<>> \/ ~IsText(Head(lastCodec.values))))
       => lastCodec.decoded = InvalidHeader
    /\ (/\ StartsWithAdd(lastCall)
        /\ XSpanValues(lastCall.input) # <<>>
        /\ ~IsText(Head(XSpanValues(lastCall.input))))
       => \E a \in ReceivedAt(lastCall, 2) :
              /\ a.inner = lastCall.input
              /\ SpanIdsOf(a.context) =
                     {UuidString(k) : k \in (lastCall.uuidsBefore + 1)..lastCall.uuidsAfter}
              /\ SpanIdsOf(a.context) # {}

\* C10: in a stack that starts with the context-attaching stage, one
\* identifier is attached per request, by that stage, and each later stage
\* hands on a context that still ends with everything it was given.
C10_IdentifierCreatedOnceAndKept ==
    StartsWithAdd(lastCall)
    => /\ \E a \in ReceivedAt(lastCall, 2) :
              Cardinality({k \in DOMAIN a.context : a.context[k].type = "XSpanId"}) = 1
       /\ \A i \in PositionsOf(lastCall, "auth") :
              \A req \in ReceivedAt(lastCall, i) :
                  \E a \in ReceivedAt(lastCall, i + 1) :
                      /\ IsSuffix(req.context, a.context)
                      /\ SpanIdsOf(a.context) = SpanIdsOf(req.context)

====
